---- MODULE Spec2Model ----
(***************************************************************************)
(* Bootstrap trust-establishment server of opni-monitoring                 *)
(* (pkg/bootstrap/server.go): the Join and Auth handlers of ServerConfig,  *)
(* run by concurrent request goroutines over a shared TokenStore and       *)
(* TenantStore.  A handler is cut into steps at its store calls, which are *)
(* the only points where goroutines interact.                              *)
(***************************************************************************)
EXTENDS Integers, Sequences, FiniteSets, TLC

(* ------------------------------ bounds -------------------------------- *)
\* number of request goroutines that may run at the same time
NumProcs == 2
\* number of requests the server accepts in one run
MaxCalls == 2
\* longest list of match expressions a label selector is given
MaxExprs == 2
\* number of agents the test environment is asked to start
NumAgents == 2

Procs == 1..NumProcs
AgentIDs == 1..NumAgents

(* ----------------------- HTTP status constants ------------------------ *)
StatusOK == 200
StatusBadRequest == 400
StatusUnauthorized == 401
StatusNotFound == 404
StatusMethodNotAllowed == 405
StatusConflict == 409
StatusInternalServerError == 500
\* not an HTTP status: the handler goroutine panicked and wrote no response
StatusNone == 0

\* fiber's SendStatus writes the status line's reason phrase as the body
StatusMessage(s) ==
    CASE s = StatusBadRequest -> "Bad Request"
      [] s = StatusUnauthorized -> "Unauthorized"
      [] s = StatusNotFound -> "Not Found"
      [] s = StatusMethodNotAllowed -> "Method Not Allowed"
      [] s = StatusConflict -> "Conflict"
      [] s = StatusInternalServerError -> "Internal Server Error"
      [] OTHER -> ""

(* ------------------------------ tokens -------------------------------- *)
\* a bootstrap token: hex identifier and secret
Tokens == { [id |-> "ab12", secret |-> "tok-123"],
            [id |-> "cd34", secret |-> "tok-456"] }
HexID(t) == t.id

(* -------------------------- header strings ---------------------------- *)
\* A header value is a sequence of symbols: a blank, the word Bearer, or a
\* run of non-blank characters that is (or is not) a JWS compact assertion.
SP == " "
BearerWord == "Bearer"

\* what each assertion symbol holds: whether its signature verifies under the
\* gateway key, whether its payload is token JSON, and the token it encodes
Assertion(sym) ==
    CASE sym = "jws-ab12" -> [isJws |-> TRUE, sigOK |-> TRUE, parses |-> TRUE,
                             token |-> [id |-> "ab12", secret |-> "tok-123"]]
      [] sym = "jws-cd34" -> [isJws |-> TRUE, sigOK |-> TRUE, parses |-> TRUE,
                             token |-> [id |-> "cd34", secret |-> "tok-456"]]
      [] sym = "jws-forged" -> [isJws |-> TRUE, sigOK |-> FALSE, parses |-> TRUE,
                               token |-> [id |-> "ab12", secret |-> "tok-123"]]
      [] sym = "jws-garbled" -> [isJws |-> TRUE, sigOK |-> TRUE, parses |-> FALSE,
                                token |-> [id |-> "", secret |-> ""]]
      [] OTHER -> [isJws |-> FALSE, sigOK |-> FALSE, parses |-> FALSE,
                   token |-> [id |-> "", secret |-> ""]]

AssertionSyms == {"jws-ab12", "jws-cd34", "jws-forged", "jws-garbled", "junk"}

RECURSIVE TrimLeft(_)
TrimLeft(s) == IF s # <<>> /\ Head(s) = SP THEN TrimLeft(Tail(s)) ELSE s

RECURSIVE TrimRight(_)
TrimRight(s) ==
    IF s # <<>> /\ s[Len(s)] = SP THEN TrimRight(SubSeq(s, 1, Len(s) - 1)) ELSE s

\* strings.TrimSpace
TrimSpace(s) == TrimRight(TrimLeft(s))

\* strings.TrimPrefix(s, "Bearer")
TrimPrefixBearer(s) == IF s # <<>> /\ Head(s) = BearerWord THEN Tail(s) ELSE s

\* jws.Verify(bearerToken, EdDSA, gatewayPublicKey): the payload, or an error
JwsVerify(b) ==
    IF Len(b) = 1 /\ Assertion(b[1]).isJws /\ Assertion(b[1]).sigOK
    THEN [err |-> FALSE, payload |-> Assertion(b[1])]
    ELSE [err |-> TRUE, payload |-> Assertion("")]

\* tokens.ParseJSON(payload): the token, or an error
ParseJSON(payload) ==
    IF payload.parses THEN [err |-> FALSE, token |-> payload.token]
    ELSE [err |-> TRUE, token |-> payload.token]

(* ------------------------------ requests ------------------------------ *)
JoinPath == "/bootstrap/join"
AuthPath == "/bootstrap/auth"
Paths == {JoinPath, AuthPath, "/metrics"}

\* Authorization header values a client may send (<<>> is the absent header)
Headers ==
    { <<>>, <<SP>>, <<BearerWord>>, <<"jws-ab12">>,
      <<SP, BearerWord, SP, "jws-ab12", SP>> }
    \cup { <<BearerWord, SP, a>> : a \in AssertionSyms }

ClientIDs == {"agent-1", "agent-2"}

\* a public key as sent by the client: a curve point, or bytes that are none
ClientPubKeys == { [valid |-> TRUE, side |-> "client", id |-> 1],
                   [valid |-> TRUE, side |-> "client", id |-> 2],
                   [valid |-> FALSE, side |-> "client", id |-> 0] }
NoKey == [valid |-> FALSE, side |-> "none", id |-> 0]

\* request bodies: JSON of a BootstrapAuthRequest, or bytes that are no JSON
NoBody == [json |-> FALSE, ClientID |-> "", ClientPubKey |-> NoKey]
Bodies ==
    { [json |-> TRUE, ClientID |-> c, ClientPubKey |-> k] :
        c \in ClientIDs, k \in ClientPubKeys } \cup {NoBody}

Requests ==
    { [path |-> AuthPath, header |-> h, body |-> b] : h \in Headers, b \in Bodies }
    \cup { [path |-> p, header |-> h, body |-> NoBody] :
             p \in Paths \ {AuthPath}, h \in Headers }
NoReq == [path |-> "", header |-> <<>>, body |-> NoBody]

\* c.BodyParser(&clientReq)
BodyParser(body) ==
    IF body.json THEN [err |-> FALSE, clientReq |-> body]
    ELSE [err |-> TRUE, clientReq |-> NoBody]

(* ------------------------------ responses ----------------------------- *)
NoSigs == [x \in {} |-> x]
Response(status, text, sigs, key) ==
    [status |-> status, text |-> text, Signatures |-> sigs, ServerPubKey |-> key]
\* c.SendStatus(status)
SendStatus(status) == Response(status, StatusMessage(status), NoSigs, NoKey)
\* c.Status(status).SendString(text)
SendString(status, text) == Response(status, text, NoSigs, NoKey)
NoResp == Response(StatusNone, "", NoSigs, NoKey)

(* --------------------------- key exchange ----------------------------- *)
\* ecdh.NewEphemeralKeyPair(): the n-th pair the process generates
NewEphemeralKeyPair(n) ==
    [PrivateKey |-> [valid |-> TRUE, side |-> "server-private", id |-> n],
     PublicKey |-> [valid |-> TRUE, side |-> "server", id |-> n]]
NoKeyPair == [PrivateKey |-> NoKey, PublicKey |-> NoKey]

\* ecdh.DeriveSharedSecret(ekp, peer): the secret both halves agree on, or an
\* error when the peer key is no valid point
NoSecret == [server |-> 0, client |-> 0]
DeriveSharedSecret(kp, peerKey) ==
    IF peerKey.valid
    THEN [err |-> FALSE, secret |-> [server |-> kp.PrivateKey.id, client |-> peerKey.id]]
    ELSE [err |-> TRUE, secret |-> NoSecret]

\* the client's ecdh.DeriveSharedSecret: its own key pair (named by its
\* public key) with the server's public key as peer
ClientDeriveSharedSecret(clientKey, serverPub) ==
    IF serverPub.valid /\ serverPub.side = "server"
    THEN [err |-> FALSE, secret |-> [server |-> serverPub.id, client |-> clientKey.id]]
    ELSE [err |-> TRUE, secret |-> NoSecret]

\* keyring.New(keyring.NewSharedKeys(sharedSecret))
NewKeyring(secret) == [sharedKeys |-> secret]
NoKeyring == [sharedKeys |-> NoSecret]

(* ------------------------------- stores ------------------------------- *)
\* TokenStore.TokenExists(ctx, id)
TokenExists(store, id, up) ==
    IF up THEN [err |-> FALSE, ok |-> \E t \in store : HexID(t) = id]
    ELSE [err |-> TRUE, ok |-> FALSE]

\* TokenStore.ListTokens(ctx)
ListTokens(store, up) ==
    IF up THEN [err |-> FALSE, tokens |-> store] ELSE [err |-> TRUE, tokens |-> {}]

\* TenantStore.TenantExists(ctx, id)
TenantExists(ts, id, up) ==
    IF up THEN [err |-> FALSE, ok |-> id \in ts] ELSE [err |-> TRUE, ok |-> FALSE]

\* TenantStore.CreateTenant(ctx, id): one conditional write, which fails with
\* AlreadyExists when the tenant is there and never overwrites
CreateTenant(ts, id, up) ==
    IF ~up THEN [err |-> "unavailable", tenants |-> ts]
    ELSE IF id \in ts THEN [err |-> "AlreadyExists", tenants |-> ts]
    ELSE [err |-> "", tenants |-> ts \cup {id}]

\* krStore.Put(ctx, kr): the whole keyring becomes visible, or none of it
KeyringPut(krs, id, k, up) ==
    IF up THEN [err |-> FALSE, keyrings |-> [krs EXCEPT ![id] = k]]
    ELSE [err |-> TRUE, keyrings |-> krs]

\* token.SignDetached(gatewayPrivateKey): signature over the token's secret
SignDetached(t) == [signer |-> "gateway", over |-> t.secret]

\* TenantStore.KeyringStore(ctx, id): the handle of the tenant's keyring store
KeyringStore(ts, id, up) == [err |-> ~up, handle |-> id]

(* ------------------------- cluster selection -------------------------- *)
\* pkg/storage/selection.go: ClusterSelector.Predicate and labelSelectorMatches
Keys == {"foo", "bar"}
LabelValues == {"", "bar", "baz"}
ClusterIds == {"c1", "c2"}

\* core.Cluster.Labels: a Go map, here a function whose domain is the keys set
EmptyLabels == [k \in {} |-> ""]
LabelMaps == UNION {[D -> LabelValues] : D \in SUBSET Keys}
Clusters == [Id : ClusterIds, Labels : LabelMaps]
NoCluster == [Id |-> "", Labels |-> EmptyLabels]

\* `labels[key]`: indexing a Go map yields the zero value "" for a missing key
Lookup(labels, key) == IF key \in DOMAIN labels THEN labels[key] ELSE ""
\* `_, ok := labels[key]`
HasKey(labels, key) == key \in DOMAIN labels

LabelSelectorOpIn == "In"
LabelSelectorOpNotIn == "NotIn"
LabelSelectorOpExists == "Exists"
LabelSelectorOpDoesNotExist == "DoesNotExist"
\* an operator string that is none of the four the switch knows
LabelSelectorOpOther == "Gt"

\* `for _, value := range req.Values { if labels[req.Key] == value { ...; break } }`
RECURSIVE ValuesContain(_, _)
ValuesContain(values, v) ==
    IF values = <<>> THEN FALSE
    ELSE IF v = Head(values) THEN TRUE
    ELSE ValuesContain(Tail(values), v)

\* the switch with Exists and DoesNotExist decided by the value looked up
RequirementHoldsByValue(r, labels) ==
    IF r.Operator = LabelSelectorOpIn
    THEN ValuesContain(r.Values, Lookup(labels, r.Key))
    ELSE IF r.Operator = LabelSelectorOpNotIn
    THEN ~ValuesContain(r.Values, Lookup(labels, r.Key))
    ELSE IF r.Operator = LabelSelectorOpExists
    THEN Lookup(labels, r.Key) # ""
    ELSE IF r.Operator = LabelSelectorOpDoesNotExist
    THEN Lookup(labels, r.Key) = ""
    ELSE TRUE

\* the switch with a default case that returns false
RequirementHoldsKnownOnly(r, labels) ==
    IF r.Operator = LabelSelectorOpIn
    THEN ValuesContain(r.Values, Lookup(labels, r.Key))
    ELSE IF r.Operator = LabelSelectorOpNotIn
    THEN ~ValuesContain(r.Values, Lookup(labels, r.Key))
    ELSE IF r.Operator = LabelSelectorOpExists
    THEN HasKey(labels, r.Key)
    ELSE IF r.Operator = LabelSelectorOpDoesNotExist
    THEN ~HasKey(labels, r.Key)
    ELSE FALSE

\* one case of the switch in labelSelectorMatches: FALSE where it returns false
RequirementHolds(r, labels) ==
    IF r.Operator = LabelSelectorOpIn
    THEN ValuesContain(r.Values, Lookup(labels, r.Key))
    ELSE IF r.Operator = LabelSelectorOpNotIn
    THEN ~ValuesContain(r.Values, Lookup(labels, r.Key))
    ELSE IF r.Operator = LabelSelectorOpExists
    THEN HasKey(labels, r.Key)
    ELSE IF r.Operator = LabelSelectorOpDoesNotExist
    THEN ~HasKey(labels, r.Key)
    ELSE TRUE

\* `for _, req := range selector.MatchExpressions { switch ... }`
RECURSIVE MatchExpressionsHold(_, _)
MatchExpressionsHold(exprs, labels) ==
    IF exprs = <<>> THEN TRUE
    ELSE IF ~RequirementHolds(Head(exprs), labels) THEN FALSE
    ELSE MatchExpressionsHold(Tail(exprs), labels)

\* labelSelectorMatches(selector, labels)
labelSelectorMatches(ls, labels) ==
    IF \E key \in DOMAIN ls.MatchLabels : Lookup(labels, key) # ls.MatchLabels[key]
    THEN FALSE
    ELSE MatchExpressionsHold(ls.MatchExpressions, labels)

\* *core.LabelSelector: nil, or MatchLabels and MatchExpressions
NoLabelSelector == [nil |-> TRUE, MatchLabels |-> EmptyLabels, MatchExpressions |-> <<>>]
LabelSelector(ml, exprs) == [nil |-> FALSE, MatchLabels |-> ml, MatchExpressions |-> exprs]

\* the function value Predicate returns: the constant-true function, or the
\* closure over idSet and the selector's LabelSelector
NoPredicate == [always |-> FALSE, idSet |-> {}, LabelSelector |-> NoLabelSelector]

\* Predicate that always builds the closure
PredicateClosureOnly(p) ==
    [always |-> FALSE,
     idSet |-> {p.ClusterIDs[i] : i \in 1..Len(p.ClusterIDs)},
     LabelSelector |-> p.LabelSelector]

\* ClusterSelector.Predicate()
Predicate(p) ==
    IF p.LabelSelector.nil /\ Len(p.ClusterIDs) = 0
    THEN [always |-> TRUE, idSet |-> {}, LabelSelector |-> NoLabelSelector]
    ELSE [always |-> FALSE,
          idSet |-> {p.ClusterIDs[i] : i \in 1..Len(p.ClusterIDs)},
          LabelSelector |-> p.LabelSelector]

\* a closure that wants a listed Id and matching labels when it has both
CallIntersection(pred, c) ==
    IF pred.always THEN TRUE
    ELSE IF pred.LabelSelector.nil THEN c.Id \in pred.idSet
    ELSE IF pred.idSet = {} THEN labelSelectorMatches(pred.LabelSelector, c.Labels)
    ELSE c.Id \in pred.idSet /\ labelSelectorMatches(pred.LabelSelector, c.Labels)

\* calling the SelectorPredicate on a cluster
Call(pred, c) ==
    IF pred.always THEN TRUE
    ELSE IF c.Id \in pred.idSet THEN TRUE
    ELSE IF pred.LabelSelector.nil THEN FALSE
    ELSE labelSelectorMatches(pred.LabelSelector, c.Labels)

\* requirements the table of selection tests is built from
ValueLists == {<<>>, <<"bar">>, <<"">>, <<"baz", "bar">>, <<"xyz">>}
Requirement(k, op, vs) == [Key |-> k, Operator |-> op, Values |-> vs]
Requirements ==
    {Requirement(k, op, vs) :
        k \in Keys, op \in {LabelSelectorOpIn, LabelSelectorOpNotIn}, vs \in ValueLists}
    \cup {Requirement(k, op, <<>>) :
            k \in Keys,
            op \in {LabelSelectorOpExists, LabelSelectorOpDoesNotExist, LabelSelectorOpOther}}
\* the requirements that lists of several expressions are made of
ListRequirements ==
    {r \in Requirements :
        \/ r.Values = <<"bar">>
        \/ r.Operator \notin {LabelSelectorOpIn, LabelSelectorOpNotIn}}
ExprLists(n) == UNION {[1..m -> ListRequirements] : m \in 0..n}
MatchLabelMaps == UNION {[D -> {"", "bar"}] : D \in SUBSET Keys}
LabelSelectors ==
    {LabelSelector(EmptyLabels, e) : e \in ExprLists(MaxExprs)}
    \cup {LabelSelector(EmptyLabels, <<r>>) : r \in Requirements}
    \cup {LabelSelector(ml, e) : ml \in MatchLabelMaps, e \in ExprLists(1)}
IdLists == {<<>>, <<"c1">>, <<"c1", "c2">>}

\* what the tests ask of a selector: ids, a label selector, a match option
MatchOptions_Default == "Default"
MatchOptions_EmptySelectorMatchesNone == "EmptySelectorMatchesNone"
SelectorArgs ==
    [ids : IdLists, labelSelector : LabelSelectors \cup {NoLabelSelector},
     options : {MatchOptions_Default}]
    \cup [ids : IdLists,
          labelSelector : {NoLabelSelector, LabelSelector(EmptyLabels, <<>>)},
          options : {MatchOptions_EmptySelectorMatchesNone}]
NoArgs == [ids |-> <<>>, labelSelector |-> NoLabelSelector, options |-> MatchOptions_Default]

\* ClusterSelector{...}: the struct has the two fields ClusterIDs and
\* LabelSelector and none that could hold a match option
ClusterSelector(a) == [ClusterIDs |-> a.ids, LabelSelector |-> a.labelSelector]

(* ------------------------------- state -------------------------------- *)
VARIABLES
    tokenStore,      \* TokenStore: the active bootstrap tokens
    tenants,         \* TenantStore: the ClientIDs that have a tenant record
    keyrings,        \* TenantStore: the keyring persisted for each ClientID
    pc,              \* where each request goroutine stands in its handler
    req,             \* the request each goroutine is serving
    resp,            \* the response each goroutine has written
    gate,            \* the return statement at which each handler ended
    token,           \* handleBootstrapAuth: token parsed from the assertion
    clientReq,       \* handleBootstrapAuth: parsed BootstrapAuthRequest
    ekp,             \* handleBootstrapAuth: ephemeral key pair
    kr,              \* handleBootstrapAuth: keyring built from the shared secret
    aborted,         \* the process went down on an unrecovered panic
    calls,           \* requests accepted so far
    nextKey,         \* key pairs generated so far
    readTokens,      \* history: the call read TokenStore
    faultAt,         \* history: the store call (or signing) that failed in the call
    storeAtStart,    \* history: TenantStore as it was when the call began
    succAtStart,     \* history: ClientIDs whose Auth had succeeded when the call began
    issued,          \* history: keyring persisted by the successful Auth of a ClientID
    successes,       \* history: number of Auth calls answered 200 per ClientID
    putCount,        \* history: number of keyring writes per ClientID
    usedToken,       \* history: hex id of the token a ClientID's successful Auth used
    args,            \* selection: what the caller asks of the selector
    selector,        \* selection: the ClusterSelector
    cluster,         \* selection: the cluster the predicate is called on
    predicate,       \* selection: the SelectorPredicate returned by Predicate()
    matched,         \* selection: what the predicate returned
    spc,             \* selection: "idle", "new", "built" or "called"
    ctxDone,         \* environment: e.ctx has been cancelled
    stop,            \* environment: where Environment.Stop stands
    runningAgents,   \* environment: ids that have an entry in e.runningAgents
    mu,              \* StartAgent: who holds the agent's mutex mu
    a,               \* StartAgent: the agent behind the pointer a, or "nil"
    errC,            \* StartAgent: errors buffered in the agent's error channel
    gpc,             \* StartAgent: where the start goroutine stands
    cpc              \* StartAgent: where the cleanup goroutine stands

stores == <<tokenStore, tenants, keyrings>>
locals == <<token, clientReq, ekp, kr>>
history == <<issued, successes, putCount, usedToken>>
starts == <<storeAtStart, succAtStart>>
vars == <<tokenStore, tenants, keyrings, pc, req, resp, gate, token, clientReq,
          ekp, kr, aborted, calls, nextKey, readTokens, faultAt, storeAtStart,
          succAtStart, issued, successes, putCount, usedToken, args, selector, cluster,
          predicate, matched, spc, ctxDone, stop, runningAgents, mu, a, errC, gpc,
          cpc>>
selection == <<args, selector, cluster, predicate, matched, spc>>
environment == <<ctxDone, stop, runningAgents, mu, a, errC, gpc, cpc>>
others == <<selection, environment>>
server == <<tokenStore, tenants, keyrings, pc, req, resp, gate, token, clientReq,
            ekp, kr, aborted, calls, nextKey, readTokens, faultAt, storeAtStart,
            succAtStart, issued, successes, putCount, usedToken>>

NoToken == [id |-> "", secret |-> ""]

\* the bootstrap server as constructed
ServerInit ==
    /\ tokenStore \in SUBSET Tokens
    /\ tenants = {}
    /\ keyrings = [c \in ClientIDs |-> NoKeyring]
    /\ pc = [p \in Procs |-> "idle"]
    /\ req = [p \in Procs |-> NoReq]
    /\ resp = [p \in Procs |-> NoResp]
    /\ gate = [p \in Procs |-> ""]
    /\ token = [p \in Procs |-> NoToken]
    /\ clientReq = [p \in Procs |-> NoBody]
    /\ ekp = [p \in Procs |-> NoKeyPair]
    /\ kr = [p \in Procs |-> NoKeyring]
    /\ aborted = FALSE
    /\ calls = 0
    /\ nextKey = 0
    /\ readTokens = [p \in Procs |-> FALSE]
    /\ faultAt = [p \in Procs |-> ""]
    /\ storeAtStart = [p \in Procs |->
                         [tenants |-> {}, keyrings |-> [c \in ClientIDs |-> NoKeyring]]]
    /\ succAtStart = [p \in Procs |-> {}]
    /\ issued = [c \in ClientIDs |-> NoKeyring]
    /\ successes = [c \in ClientIDs |-> 0]
    /\ putCount = [c \in ClientIDs |-> 0]
    /\ usedToken = [c \in ClientIDs |-> ""]

\* no selector is being evaluated
SelectionIdle ==
    /\ args = NoArgs
    /\ selector = ClusterSelector(NoArgs)
    /\ cluster = NoCluster
    /\ predicate = NoPredicate
    /\ matched = FALSE
    /\ spc = "idle"

\* Environment.Start has run: the context is live and no agent was started
EnvironmentStarted ==
    /\ ctxDone = FALSE
    /\ stop = "running"
    /\ runningAgents = {}
    /\ mu = [id \in AgentIDs |-> "free"]
    /\ a = [id \in AgentIDs |-> "nil"]
    /\ errC = [id \in AgentIDs |-> 0]
    /\ gpc = [id \in AgentIDs |-> "idle"]
    /\ cpc = [id \in AgentIDs |-> "idle"]

Init == ServerInit /\ SelectionIdle /\ EnvironmentStarted

\* the handler of p returns response r at return statement g
Finish(p, r, g) ==
    /\ pc' = [pc EXCEPT ![p] = "done"]
    /\ resp' = [resp EXCEPT ![p] = r]
    /\ gate' = [gate EXCEPT ![p] = g]
    /\ token' = [token EXCEPT ![p] = NoToken]
    /\ clientReq' = [clientReq EXCEPT ![p] = NoBody]
    /\ ekp' = [ekp EXCEPT ![p] = NoKeyPair]
    /\ kr' = [kr EXCEPT ![p] = NoKeyring]

\* the handler of p goes on to its next store call
Goto(p, l) ==
    /\ pc' = [pc EXCEPT ![p] = l]
    /\ UNCHANGED <<resp, gate>>

(* ------------------------------ dispatch ------------------------------ *)
\* a switch whose default case is the Join handler
RouteDefaultJoin(path) ==
    IF path = AuthPath THEN "auth" ELSE "join"

\* `switch c.Path()` of ServerConfig.Handle: the handler a path is given to
Route(path) ==
    IF path = JoinPath THEN "join"
    ELSE IF path = AuthPath THEN "auth"
    ELSE "notFound"

\* ServerConfig.Handle: a goroutine takes a request and dispatches on its path
Handle(p, r) ==
    /\ ~aborted
    /\ UNCHANGED others
    /\ pc[p] = "idle"
    /\ calls < MaxCalls
    /\ calls' = calls + 1
    /\ req' = [req EXCEPT ![p] = r]
    /\ storeAtStart' = [storeAtStart EXCEPT
                          ![p] = [tenants |-> tenants, keyrings |-> keyrings]]
    /\ succAtStart' = [succAtStart EXCEPT ![p] = {c \in ClientIDs : successes[c] > 0}]
    /\ readTokens' = [readTokens EXCEPT ![p] = FALSE]
    /\ faultAt' = [faultAt EXCEPT ![p] = ""]
    /\ IF Route(r.path) = "notFound"
       THEN Finish(p, SendStatus(StatusNotFound), "notFound")
       ELSE Goto(p, Route(r.path)) /\ UNCHANGED locals
    /\ UNCHANGED <<stores, aborted, nextKey, history>>

(* -------------------------------- Join -------------------------------- *)
\* bootstrapJoinResponse whose entries all hold the signature of one token
BootstrapJoinResponseOneToken(store, up, unsignable) ==
    LET l == ListTokens(store, up) IN
    IF l.err THEN [err |-> TRUE, Signatures |-> NoSigs]
    ELSE IF l.tokens \cap unsignable # {} THEN [err |-> TRUE, Signatures |-> NoSigs]
    ELSE [err |-> FALSE,
          Signatures |-> [i \in {HexID(t) : t \in l.tokens} |->
                            SignDetached(CHOOSE t \in l.tokens : TRUE)]]

\* bootstrapJoinResponse that leaves out the tokens whose signing fails
BootstrapJoinResponseSkipUnsignable(store, up, unsignable) ==
    LET l == ListTokens(store, up) IN
    IF l.err THEN [err |-> TRUE, Signatures |-> NoSigs]
    ELSE [err |-> FALSE,
          Signatures |-> [i \in {HexID(t) : t \in l.tokens \ unsignable} |->
                            SignDetached(CHOOSE t \in l.tokens : HexID(t) = i)]]

\* ServerConfig.bootstrapJoinResponse: one signature per listed token, keyed
\* by hex id; unsignable is the set of tokens whose signing fails
BootstrapJoinResponse(store, up, unsignable) ==
    LET l == ListTokens(store, up) IN
    IF l.err THEN [err |-> TRUE, Signatures |-> NoSigs]
    ELSE IF l.tokens \cap unsignable # {} THEN [err |-> TRUE, Signatures |-> NoSigs]
    ELSE [err |-> FALSE,
          Signatures |-> [i \in {HexID(t) : t \in l.tokens} |->
                            SignDetached(CHOOSE t \in l.tokens : HexID(t) = i)]]

\* handleBootstrapJoin that refuses only a header that starts with Bearer
JoinOutcomeBearerOnly(header, store, up, unsignable) ==
    LET authHeader == TrimSpace(header)
        r == BootstrapJoinResponse(store, up, unsignable)
    IN  IF authHeader = <<>> \/ Head(authHeader) # BearerWord
        THEN IF r.err
             THEN [resp |-> SendStatus(StatusInternalServerError), gate |-> "join.err",
                   read |-> TRUE]
             ELSE IF DOMAIN r.Signatures = {}
             THEN [resp |-> SendStatus(StatusMethodNotAllowed), gate |-> "join.empty",
                   read |-> TRUE]
             ELSE [resp |-> Response(StatusOK, "", r.Signatures, NoKey),
                   gate |-> "join.ok", read |-> TRUE]
        ELSE [resp |-> SendStatus(StatusBadRequest), gate |-> "join.credential",
              read |-> FALSE]

\* handleBootstrapJoin without the check for an empty signature map
JoinOutcomeEmptySuccess(header, store, up, unsignable) ==
    LET authHeader == TrimSpace(header)
        r == BootstrapJoinResponse(store, up, unsignable)
    IN  IF authHeader = <<>>
        THEN IF r.err
             THEN [resp |-> SendStatus(StatusInternalServerError), gate |-> "join.err",
                   read |-> TRUE]
             ELSE [resp |-> Response(StatusOK, "", r.Signatures, NoKey),
                   gate |-> "join.ok", read |-> TRUE]
        ELSE [resp |-> SendStatus(StatusBadRequest), gate |-> "join.credential",
              read |-> FALSE]

\* ServerConfig.handleBootstrapJoin: the response and return statement for a
\* header value, given how the token listing and the signing go
JoinOutcome(header, store, up, unsignable) ==
    LET authHeader == TrimSpace(header)
        r == BootstrapJoinResponse(store, up, unsignable)
    IN  IF authHeader = <<>>
        THEN IF r.err
             THEN [resp |-> SendStatus(StatusInternalServerError), gate |-> "join.err",
                   read |-> TRUE]
             ELSE IF DOMAIN r.Signatures = {}
             THEN [resp |-> SendStatus(StatusMethodNotAllowed), gate |-> "join.empty",
                   read |-> TRUE]
             ELSE [resp |-> Response(StatusOK, "", r.Signatures, NoKey),
                   gate |-> "join.ok", read |-> TRUE]
        ELSE [resp |-> SendStatus(StatusBadRequest), gate |-> "join.credential",
              read |-> FALSE]

HandleBootstrapJoin(p) ==
    /\ ~aborted
    /\ UNCHANGED others
    /\ pc[p] = "join"
    /\ \E up \in BOOLEAN, unsignable \in SUBSET tokenStore :
         LET o == JoinOutcome(req[p].header, tokenStore, up, unsignable) IN
         /\ Finish(p, o.resp, o.gate)
         /\ readTokens' = [readTokens EXCEPT ![p] = o.read]
         /\ faultAt' = [faultAt EXCEPT ![p] =
                          IF ~o.read THEN @
                          ELSE IF ~up THEN "ListTokens"
                          ELSE IF tokenStore \cap unsignable # {} THEN "SignDetached"
                          ELSE @]
    /\ UNCHANGED <<stores, req, aborted, calls, nextKey, starts, history>>

(* -------------------------------- Auth -------------------------------- *)
\* handleBootstrapAuth up to the parsed token: credential present, signature
\* valid, payload parses
AuthVerify(p) ==
    /\ ~aborted
    /\ UNCHANGED others
    /\ pc[p] = "auth"
    /\ LET authHeader == TrimSpace(req[p].header)
           bearerToken == TrimSpace(TrimPrefixBearer(authHeader))
           v == JwsVerify(bearerToken)
           t == ParseJSON(v.payload)
       IN  IF TrimSpace(authHeader) = <<>>
           THEN Finish(p, SendStatus(StatusUnauthorized), "credential")
                /\ UNCHANGED aborted
           ELSE IF v.err
           THEN Finish(p, SendStatus(StatusUnauthorized), "signature")
                /\ UNCHANGED aborted
           ELSE IF t.err
           THEN \* panic("bug: jws.Verify returned a malformed token")
                /\ pc' = [pc EXCEPT ![p] = "panicked"]
                /\ gate' = [gate EXCEPT ![p] = "parse"]
                /\ aborted' = TRUE
                /\ UNCHANGED <<resp, locals>>
           ELSE /\ Goto(p, "tokenExists")
                /\ token' = [token EXCEPT ![p] = t.token]
                /\ UNCHANGED <<clientReq, ekp, kr, aborted>>
    /\ UNCHANGED <<stores, req, calls, nextKey, readTokens, faultAt, starts, history>>

\* an unknown token answered in words of its own
RejectUnknownTokenTelling == SendString(StatusUnauthorized, "unknown token")

\* the response to an assertion whose token is not in TokenStore
RejectUnknownToken == SendStatus(StatusUnauthorized)

\* handleBootstrapAuth with the body parsed before the token is looked up
AuthTokenExistsBodyFirst(p) ==
    /\ ~aborted
    /\ UNCHANGED others
    /\ pc[p] = "tokenExists"
    /\ readTokens' = [readTokens EXCEPT ![p] = TRUE]
    /\ \E up \in BOOLEAN :
         /\ faultAt' = [faultAt EXCEPT ![p] = IF up THEN @ ELSE "TokenExists"]
         /\ LET e == TokenExists(tokenStore, HexID(token[p]), up)
                b == BodyParser(req[p].body)
            IN  IF b.err
                THEN Finish(p, SendString(StatusBadRequest, "Invalid request body"), "body")
                ELSE IF e.err
                THEN Finish(p, SendStatus(StatusInternalServerError), "tokenExists.err")
                ELSE IF ~e.ok
                THEN Finish(p, RejectUnknownToken, "token")
                ELSE /\ Goto(p, "tenantExists")
                     /\ clientReq' = [clientReq EXCEPT ![p] = b.clientReq]
                     /\ UNCHANGED <<token, ekp, kr>>
    /\ UNCHANGED <<stores, req, aborted, calls, nextKey, starts, history>>

\* handleBootstrapAuth from the token lookup to the parsed body
AuthTokenExists(p) ==
    /\ ~aborted
    /\ UNCHANGED others
    /\ pc[p] = "tokenExists"
    /\ readTokens' = [readTokens EXCEPT ![p] = TRUE]
    /\ \E up \in BOOLEAN :
         /\ faultAt' = [faultAt EXCEPT ![p] = IF up THEN @ ELSE "TokenExists"]
         /\ LET e == TokenExists(tokenStore, HexID(token[p]), up)
                b == BodyParser(req[p].body)
            IN  IF e.err
                THEN Finish(p, SendStatus(StatusInternalServerError), "tokenExists.err")
                ELSE IF ~e.ok
                THEN Finish(p, RejectUnknownToken, "token")
                ELSE IF b.err
                THEN Finish(p, SendString(StatusBadRequest, "Invalid request body"), "body")
                ELSE /\ Goto(p, "tenantExists")
                     /\ clientReq' = [clientReq EXCEPT ![p] = b.clientReq]
                     /\ UNCHANGED <<token, ekp, kr>>
    /\ UNCHANGED <<stores, req, aborted, calls, nextKey, starts, history>>

\* a pre-check whose result is dropped
TenantInUseNever(e) == FALSE

\* `else if ok` after TenantStore.TenantExists
TenantInUse(e) == e.ok

\* one key pair generated when the server starts and used by every call
CachedKeyPair(n) == NewEphemeralKeyPair(1)

\* `ekp := ecdh.NewEphemeralKeyPair()` inside handleBootstrapAuth: each call
\* that reaches the key exchange generates a pair of its own, the next one
\* after the n pairs the process has generated so far
FreshKeyPair(n) == NewEphemeralKeyPair(n + 1)

\* a key-exchange failure answered as a client error
KeyExchangeFailureBadRequest == SendStatus(StatusBadRequest)

\* handleBootstrapAuth, the error branch of DeriveSharedSecret: the shared secret
\* cannot be derived from the client's public key
KeyExchangeFailure == SendStatus(StatusInternalServerError)

\* handleBootstrapAuth with the tenant created ahead of the key exchange
AuthTenantExistsCreateFirst(p) ==
    /\ ~aborted
    /\ UNCHANGED others
    /\ pc[p] = "tenantExists"
    /\ \E up \in BOOLEAN :
         /\ faultAt' = [faultAt EXCEPT ![p] = IF up THEN @ ELSE "TenantExists"]
         /\ LET e == TenantExists(tenants, clientReq[p].ClientID, up)
                pair == FreshKeyPair(nextKey)
                d == DeriveSharedSecret(pair, clientReq[p].ClientPubKey)
            IN  IF e.err
                THEN Finish(p, SendStatus(StatusInternalServerError), "tenantExists.err")
                     /\ UNCHANGED <<nextKey, tenants>>
                ELSE IF TenantInUse(e)
                THEN Finish(p, SendString(StatusConflict, "ID already in use"), "conflict")
                     /\ UNCHANGED <<nextKey, tenants>>
                ELSE IF d.err
                THEN Finish(p, KeyExchangeFailure, "keyExchange")
                     /\ nextKey' = nextKey + 1
                     /\ tenants' = tenants \cup {clientReq[p].ClientID}
                ELSE /\ Goto(p, "createTenant")
                     /\ nextKey' = nextKey + 1
                     /\ ekp' = [ekp EXCEPT ![p] = pair]
                     /\ kr' = [kr EXCEPT ![p] = NewKeyring(d.secret)]
                     /\ UNCHANGED <<token, clientReq, tenants>>
    /\ UNCHANGED <<tokenStore, keyrings, req, aborted, calls, readTokens, starts, history>>

\* handleBootstrapAuth from the tenant pre-check to the keyring built from the
\* shared secret
AuthTenantExists(p) ==
    /\ ~aborted
    /\ UNCHANGED others
    /\ pc[p] = "tenantExists"
    /\ \E up \in BOOLEAN :
         /\ faultAt' = [faultAt EXCEPT ![p] = IF up THEN @ ELSE "TenantExists"]
         /\ LET e == TenantExists(tenants, clientReq[p].ClientID, up)
                pair == FreshKeyPair(nextKey)
                d == DeriveSharedSecret(pair, clientReq[p].ClientPubKey)
            IN  IF e.err
                THEN Finish(p, SendStatus(StatusInternalServerError), "tenantExists.err")
                     /\ UNCHANGED nextKey
                ELSE IF TenantInUse(e)
                THEN Finish(p, SendString(StatusConflict, "ID already in use"), "conflict")
                     /\ UNCHANGED nextKey
                ELSE IF d.err
                THEN Finish(p, KeyExchangeFailure, "keyExchange")
                     /\ nextKey' = nextKey + 1
                ELSE /\ Goto(p, "createTenant")
                     /\ nextKey' = nextKey + 1
                     /\ ekp' = [ekp EXCEPT ![p] = pair]
                     /\ kr' = [kr EXCEPT ![p] = NewKeyring(d.secret)]
                     /\ UNCHANGED <<token, clientReq>>
    /\ UNCHANGED <<stores, req, aborted, calls, readTokens, starts, history>>

\* a CreateTenant check that lets the already-exists error through
CreateTenantFailedUnlessExists(res) == res.err = "unavailable"

\* `err != nil` after TenantStore.CreateTenant
CreateTenantFailed(res) == res.err # ""

\* handleBootstrapAuth: TenantStore.CreateTenant
AuthCreateTenant(p) ==
    /\ ~aborted
    /\ UNCHANGED others
    /\ pc[p] = "createTenant"
    /\ \E up \in BOOLEAN :
         /\ faultAt' = [faultAt EXCEPT ![p] = IF up THEN @ ELSE "CreateTenant"]
         /\ LET res == CreateTenant(tenants, clientReq[p].ClientID, up) IN
            /\ tenants' = res.tenants
            /\ IF CreateTenantFailed(res)
               THEN Finish(p, SendStatus(StatusInternalServerError),
                           IF res.err = "AlreadyExists" THEN "createTenant.exists"
                           ELSE "createTenant.err")
               ELSE Goto(p, "keyringStore") /\ UNCHANGED locals
    /\ UNCHANGED <<tokenStore, keyrings, req, aborted, calls, nextKey, readTokens,
                   starts, history>>

\* handleBootstrapAuth: TenantStore.KeyringStore
AuthKeyringStore(p) ==
    /\ ~aborted
    /\ UNCHANGED others
    /\ pc[p] = "keyringStore"
    /\ \E up \in BOOLEAN :
         /\ faultAt' = [faultAt EXCEPT ![p] = IF up THEN @ ELSE "KeyringStore"]
         /\ LET h == KeyringStore(tenants, clientReq[p].ClientID, up) IN
            IF h.err
            THEN Finish(p, SendStatus(StatusInternalServerError), "keyringStore.err")
            ELSE Goto(p, "put") /\ UNCHANGED locals
    /\ UNCHANGED <<stores, req, aborted, calls, nextKey, readTokens, starts, history>>

\* a success response that carries the public key of another, new key pair
AuthResponseOtherPair(kp) ==
    Response(StatusOK, "", NoSigs, NewEphemeralKeyPair(kp.PublicKey.id + 1).PublicKey)

\* BootstrapAuthResponse{ServerPubKey: ekp.PublicKey} with status 200
AuthResponse(kp) == Response(StatusOK, "", NoSigs, kp.PublicKey)

\* handleBootstrapAuth deleting the token it has used when it succeeds
AuthPutConsumeToken(p) ==
    /\ ~aborted
    /\ UNCHANGED others
    /\ pc[p] = "put"
    /\ \E up \in BOOLEAN :
         /\ faultAt' = [faultAt EXCEPT ![p] = IF up THEN @ ELSE "Put"]
         /\ LET c == clientReq[p].ClientID
                res == KeyringPut(keyrings, c, kr[p], up)
            IN  /\ keyrings' = res.keyrings
                /\ IF res.err
                   THEN /\ Finish(p, SendStatus(StatusInternalServerError), "put.err")
                        /\ UNCHANGED <<history, tokenStore>>
                   ELSE /\ Finish(p, AuthResponse(ekp[p]), "ok")
                        /\ putCount' = [putCount EXCEPT ![c] = @ + 1]
                        /\ successes' = [successes EXCEPT ![c] = @ + 1]
                        /\ issued' = [issued EXCEPT ![c] = kr[p]]
                        /\ usedToken' = [usedToken EXCEPT ![c] = HexID(token[p])]
                        /\ tokenStore' = {t \in tokenStore : HexID(t) # HexID(token[p])}
    /\ UNCHANGED <<tenants, req, aborted, calls, nextKey, readTokens, starts>>

\* handleBootstrapAuth: krStore.Put and the success response
AuthPut(p) ==
    /\ ~aborted
    /\ UNCHANGED others
    /\ pc[p] = "put"
    /\ \E up \in BOOLEAN :
         /\ faultAt' = [faultAt EXCEPT ![p] = IF up THEN @ ELSE "Put"]
         /\ LET c == clientReq[p].ClientID
                res == KeyringPut(keyrings, c, kr[p], up)
            IN  /\ keyrings' = res.keyrings
                /\ IF res.err
                   THEN /\ Finish(p, SendStatus(StatusInternalServerError), "put.err")
                        /\ UNCHANGED history
                   ELSE /\ Finish(p, AuthResponse(ekp[p]), "ok")
                        /\ putCount' = [putCount EXCEPT ![c] = @ + 1]
                        /\ successes' = [successes EXCEPT ![c] = @ + 1]
                        /\ issued' = [issued EXCEPT ![c] = kr[p]]
                        /\ usedToken' = [usedToken EXCEPT ![c] = HexID(token[p])]
    /\ UNCHANGED <<tokenStore, tenants, req, aborted, calls, nextKey, readTokens, starts>>

\* the response is on the wire and the goroutine is free for the next request
Return(p) ==
    /\ ~aborted
    /\ UNCHANGED others
    /\ pc[p] = "done"
    /\ pc' = [pc EXCEPT ![p] = "idle"]
    /\ req' = [req EXCEPT ![p] = NoReq]
    /\ resp' = [resp EXCEPT ![p] = NoResp]
    /\ gate' = [gate EXCEPT ![p] = ""]
    /\ faultAt' = [faultAt EXCEPT ![p] = ""]
    /\ UNCHANGED <<stores, locals, aborted, calls, nextKey, readTokens, starts, history>>

\* the steps a goroutine takes inside a handler
Step(p) ==
    \/ HandleBootstrapJoin(p)
    \/ AuthVerify(p)
    \/ AuthTokenExists(p)
    \/ AuthTenantExists(p)
    \/ AuthCreateTenant(p)
    \/ AuthKeyringStore(p)
    \/ AuthPut(p)
    \/ Return(p)

\* Clients send any request, one at a time: goroutine 1 accepts the next
\* request once it has answered the previous one.
Next ==
    \/ \E r \in Requests : Handle(1, r)
    \/ Step(1)

Spec == Init /\ [][Next]_vars

\* Auth requests of clients that hold a registered token and a key pair of
\* their own (agent-1 sends key 1, agent-2 sends key 2)
AuthCalls ==
    { r \in Requests :
        /\ r.path = AuthPath
        /\ r.header = <<BearerWord, SP, "jws-ab12">>
        /\ r.body.json
        /\ r.body.ClientPubKey.valid
        /\ (r.body.ClientID = "agent-1") <=> (r.body.ClientPubKey.id = 1) }

InitConcurrent == Init /\ tokenStore = Tokens

\* Clients send Auth requests at any time: up to NumProcs handlers run
\* concurrently and interleave at their store calls.
NextConcurrent ==
    \E p \in Procs :
        \/ \E r \in AuthCalls : Handle(p, r)
        \/ AuthVerify(p)
        \/ AuthTokenExists(p)
        \/ AuthTenantExists(p)
        \/ AuthCreateTenant(p)
        \/ AuthKeyringStore(p)
        \/ AuthPut(p)
        \/ Return(p)

SpecConcurrent == InitConcurrent /\ [][NextConcurrent]_vars

(* --------------------- evaluating a cluster selector ------------------ *)
\* `selector.Predicate()`
BuildPredicate ==
    /\ spc = "new"
    /\ predicate' = Predicate(selector)
    /\ spc' = "built"
    /\ UNCHANGED <<server, environment, args, selector, cluster, matched>>

\* `selector.Predicate()(c)`: the returned function is called on the cluster
CallPredicate ==
    /\ spc = "built"
    /\ matched' = Call(predicate, cluster)
    /\ spc' = "called"
    /\ UNCHANGED <<server, environment, args, selector, cluster, predicate>>

\* a selector the caller has built and a cluster to evaluate it on; the
\* bootstrap server takes no part
InitSelection ==
    /\ ServerInit
    /\ tokenStore = {}
    /\ args \in SelectorArgs
    /\ selector = ClusterSelector(args)
    /\ cluster \in Clusters
    /\ predicate = NoPredicate
    /\ matched = FALSE
    /\ spc = "new"
    /\ EnvironmentStarted

NextSelection == BuildPredicate \/ CallPredicate

SpecSelection == InitSelection /\ [][NextSelection]_vars

(* ---------------- agents of the test environment ---------------------- *)
\* pkg/test/environment.go: Environment.StartAgent starts two goroutines per
\* agent, the start goroutine and the cleanup goroutine registered with the
\* wait context; Environment.Stop cancels the context and waits for the
\* registered goroutines.

\* `errC := make(chan error, 1)`
ErrCCapacity == 1

\* pcs at which a goroutine has returned or was never started
Finished == {"idle", "refused", "done"}

\* StartAgent(id, token, pins): with a pin or a token that does not decode it
\* puts the error in errC and returns; otherwise it starts the two goroutines
StartAgent(id) ==
    /\ stop = "running"
    /\ gpc[id] = "idle"
    /\ \E inputsOK \in BOOLEAN :
         IF inputsOK
         THEN /\ gpc' = [gpc EXCEPT ![id] = "lock"]
              /\ cpc' = [cpc EXCEPT ![id] = "wait"]
              /\ UNCHANGED errC
         ELSE /\ errC' = [errC EXCEPT ![id] = @ + 1]
              /\ gpc' = [gpc EXCEPT ![id] = "refused"]
              /\ cpc' = [cpc EXCEPT ![id] = "refused"]
    /\ UNCHANGED <<server, selection, ctxDone, stop, runningAgents, mu, a>>

\* start goroutine: mu.Lock()
StartLock(id) ==
    /\ gpc[id] = "lock"
    /\ mu[id] = "free"
    /\ mu' = [mu EXCEPT ![id] = "start"]
    /\ gpc' = [gpc EXCEPT ![id] = "new"]
    /\ UNCHANGED <<server, selection, ctxDone, stop, runningAgents, a, errC, cpc>>

\* start goroutine: a, err = agent.New(e.ctx, ...), which succeeds or fails
AgentNew(id) ==
    /\ gpc[id] = "new"
    /\ \E ok \in BOOLEAN :
         IF ok
         THEN /\ a' = [a EXCEPT ![id] = "created"]
              /\ gpc' = [gpc EXCEPT ![id] = "register"]
         ELSE /\ gpc' = [gpc EXCEPT ![id] = "sendNewErr"]
              /\ UNCHANGED a
    /\ UNCHANGED <<server, selection, ctxDone, stop, runningAgents, mu, errC, cpc>>

\* start goroutine, agent.New failed: errC <- err; mu.Unlock(); return
StartSendNewErr(id) ==
    /\ gpc[id] = "sendNewErr"
    /\ errC[id] < ErrCCapacity
    /\ errC' = [errC EXCEPT ![id] = @ + 1]
    /\ mu' = [mu EXCEPT ![id] = "free"]
    /\ gpc' = [gpc EXCEPT ![id] = "done"]
    /\ UNCHANGED <<server, selection, ctxDone, stop, runningAgents, a, cpc>>

\* start goroutine: e.runningAgents[id] = RunningAgent{...} under runningAgentsMu
StartRegister(id) ==
    /\ gpc[id] = "register"
    /\ runningAgents' = runningAgents \cup {id}
    /\ gpc' = [gpc EXCEPT ![id] = "unlock"]
    /\ UNCHANGED <<server, selection, ctxDone, stop, mu, a, errC, cpc>>

\* start goroutine: mu.Unlock(), then a.ListenAndServe() is entered
StartUnlock(id) ==
    /\ gpc[id] = "unlock"
    /\ mu' = [mu EXCEPT ![id] = "free"]
    /\ gpc' = [gpc EXCEPT ![id] = "serve"]
    /\ UNCHANGED <<server, selection, ctxDone, stop, runningAgents, a, errC, cpc>>

\* a.ListenAndServe() of an agent that was not shut down returns an error
ListenAndServeFails(id) ==
    /\ gpc[id] = "serve"
    /\ a[id] = "created"
    /\ gpc' = [gpc EXCEPT ![id] = "sendServeErr"]
    /\ UNCHANGED <<server, selection, ctxDone, stop, runningAgents, mu, a, errC, cpc>>

\* a.ListenAndServe() returns once the agent is shut down, with or without an
\* error
ListenAndServeReturns(id) ==
    /\ gpc[id] = "serve"
    /\ a[id] = "shutdown"
    /\ \E err \in BOOLEAN :
         gpc' = [gpc EXCEPT ![id] = IF err THEN "sendServeErr" ELSE "done"]
    /\ UNCHANGED <<server, selection, ctxDone, stop, runningAgents, mu, a, errC, cpc>>

\* start goroutine, ListenAndServe returned an error: errC <- err
StartSendServeErr(id) ==
    /\ gpc[id] = "sendServeErr"
    /\ errC[id] < ErrCCapacity
    /\ errC' = [errC EXCEPT ![id] = @ + 1]
    /\ gpc' = [gpc EXCEPT ![id] = "done"]
    /\ UNCHANGED <<server, selection, ctxDone, stop, runningAgents, mu, a, cpc>>

\* cleanup goroutine: <-e.ctx.Done()
CleanupWake(id) ==
    /\ cpc[id] = "wait"
    /\ ctxDone
    /\ cpc' = [cpc EXCEPT ![id] = "lock"]
    /\ UNCHANGED <<server, selection, ctxDone, stop, runningAgents, mu, a, errC, gpc>>

\* cleanup goroutine: mu.Lock()
CleanupLock(id) ==
    /\ cpc[id] = "lock"
    /\ mu[id] = "free"
    /\ mu' = [mu EXCEPT ![id] = "cleanup"]
    /\ cpc' = [cpc EXCEPT ![id] = "check"]
    /\ UNCHANGED <<server, selection, ctxDone, stop, runningAgents, a, errC, gpc>>

\* cleanup goroutine: if a == nil { return }, with the deferred mu.Unlock()
CleanupCheck(id) ==
    /\ cpc[id] = "check"
    /\ IF a[id] = "nil"
       THEN /\ mu' = [mu EXCEPT ![id] = "free"]
            /\ cpc' = [cpc EXCEPT ![id] = "done"]
       ELSE /\ cpc' = [cpc EXCEPT ![id] = "shutdown"]
            /\ UNCHANGED mu
    /\ UNCHANGED <<server, selection, ctxDone, stop, runningAgents, a, errC, gpc>>

\* cleanup goroutine: a.Shutdown(), which succeeds or reports an error
AgentShutdown(id) ==
    /\ cpc[id] = "shutdown"
    /\ a' = [a EXCEPT ![id] = "shutdown"]
    /\ \E err \in BOOLEAN :
         cpc' = [cpc EXCEPT ![id] = IF err THEN "sendShutdownErr" ELSE "delete"]
    /\ UNCHANGED <<server, selection, ctxDone, stop, runningAgents, mu, errC, gpc>>

\* cleanup goroutine, Shutdown reported an error: errC <- err
CleanupSendErr(id) ==
    /\ cpc[id] = "sendShutdownErr"
    /\ errC[id] < ErrCCapacity
    /\ errC' = [errC EXCEPT ![id] = @ + 1]
    /\ cpc' = [cpc EXCEPT ![id] = "delete"]
    /\ UNCHANGED <<server, selection, ctxDone, stop, runningAgents, mu, a, gpc>>

\* cleanup goroutine: delete(e.runningAgents, id) under runningAgentsMu, then
\* the deferred mu.Unlock()
CleanupDelete(id) ==
    /\ cpc[id] = "delete"
    /\ runningAgents' = runningAgents \ {id}
    /\ mu' = [mu EXCEPT ![id] = "free"]
    /\ cpc' = [cpc EXCEPT ![id] = "done"]
    /\ UNCHANGED <<server, selection, ctxDone, stop, a, errC, gpc>>

\* the caller of StartAgent receives from the channel it was returned
CallerReceive(id) ==
    /\ errC[id] > 0
    /\ errC' = [errC EXCEPT ![id] = @ - 1]
    /\ UNCHANGED <<server, selection, ctxDone, stop, runningAgents, mu, a, gpc, cpc>>

\* Environment.Stop: e.cancel()
StopCancel ==
    /\ stop = "running"
    /\ ctxDone' = TRUE
    /\ stop' = "waiting"
    /\ UNCHANGED <<server, selection, runningAgents, mu, a, errC, gpc, cpc>>

\* Environment.Stop: waitctx.Wait returns, every registered goroutine is done
StopWaitReturns ==
    /\ stop = "waiting"
    /\ \A id \in AgentIDs : cpc[id] \in Finished
    /\ stop' = "stopped"
    /\ UNCHANGED <<server, selection, ctxDone, runningAgents, mu, a, errC, gpc, cpc>>

\* Environment.Stop: waitctx.Wait gives up after its 20 seconds
StopTimeout ==
    /\ stop = "waiting"
    /\ \E id \in AgentIDs : cpc[id] \notin Finished
    /\ stop' = "timedOut"
    /\ UNCHANGED <<server, selection, ctxDone, runningAgents, mu, a, errC, gpc, cpc>>

\* the steps of the start goroutine of agent id
StartGoroutine(id) ==
    \/ StartLock(id)
    \/ AgentNew(id)
    \/ StartSendNewErr(id)
    \/ StartRegister(id)
    \/ StartUnlock(id)
    \/ ListenAndServeReturns(id)
    \/ StartSendServeErr(id)

\* the steps of the cleanup goroutine of agent id
CleanupGoroutine(id) ==
    \/ CleanupWake(id)
    \/ CleanupLock(id)
    \/ CleanupCheck(id)
    \/ AgentShutdown(id)
    \/ CleanupSendErr(id)
    \/ CleanupDelete(id)

\* the environment is started; the bootstrap server and the selector take no
\* part
InitAgents ==
    /\ ServerInit
    /\ tokenStore = {}
    /\ SelectionIdle
    /\ EnvironmentStarted

NextAgents ==
    \/ \E id \in AgentIDs :
         \/ StartAgent(id)
         \/ StartGoroutine(id)
         \/ ListenAndServeFails(id)
         \/ CleanupGoroutine(id)
         \/ CallerReceive(id)
    \/ StopCancel
    \/ StopWaitReturns
    \/ StopTimeout

SpecAgents == InitAgents /\ [][NextAgents]_vars

\* The Go scheduler runs every goroutine that can take a step, and once the
\* agent is shut down ListenAndServe returns.  Nothing makes the caller read
\* the channel, ListenAndServe fail on its own, or Stop be called.
FairAgents ==
    \A id \in AgentIDs :
        /\ WF_vars(StartGoroutine(id))
        /\ WF_vars(CleanupGoroutine(id))

SpecAgentsFair == InitAgents /\ [][NextAgents]_vars /\ FairAgents

(* ------------------------ vocabulary of the claims -------------------- *)
Done(p) == pc[p] = "done"
IsAuth(p) == req[p].path = AuthPath
IsJoin(p) == req[p].path = JoinPath
\* return statements taken because a store call reported a failure
FaultGates == {"join.err", "tokenExists.err", "tenantExists.err", "createTenant.err",
               "keyringStore.err", "put.err"}

\* the gates of Auth, as conditions on the request
CredentialPresent(h) == TrimSpace(h) # <<>>
Assertion0(h) == TrimSpace(TrimPrefixBearer(TrimSpace(h)))
SignatureValid(h) == CredentialPresent(h) /\ ~JwsVerify(Assertion0(h)).err
PayloadParses(h) == SignatureValid(h) /\ JwsVerify(Assertion0(h)).payload.parses
TokenRegistered(h, store) ==
    /\ PayloadParses(h)
    /\ JwsVerify(Assertion0(h)).payload.token.id \in {HexID(t) : t \in store}
WellFormedAuth(r, store) ==
    /\ r.path = AuthPath
    /\ TokenRegistered(r.header, store)
    /\ r.body.json

(* --------------------------------- C1 --------------------------------- *)
\* C1: Auth calls for the same ClientID, in any interleaving and also when
\* several pass the TenantExists pre-check before any calls CreateTenant: at
\* most one is answered with success, and once one has succeeded the ClientID
\* has one tenant record whose keyring was written once and is the winner's.
C1_TenantUniqueness ==
    \A c \in ClientIDs :
        /\ successes[c] <= 1
        /\ putCount[c] <= 1
        /\ \A p, q \in Procs :
             (/\ p # q /\ Done(p) /\ Done(q)
              /\ req[p].body.ClientID = c /\ req[q].body.ClientID = c)
             => ~(resp[p].status = StatusOK /\ resp[q].status = StatusOK)
        /\ successes[c] = 1 =>
             /\ c \in tenants
             /\ putCount[c] = 1
             /\ keyrings[c] = issued[c]
             /\ keyrings[c] # NoKeyring

\* two calls for one ClientID both passed the pre-check; one won, one lost at
\* CreateTenant
C1_Witness ==
    \E p, q \in Procs :
        /\ p # q /\ Done(p) /\ Done(q)
        /\ req[p].body.ClientID = req[q].body.ClientID
        /\ gate[p] = "ok"
        /\ gate[q] = "createTenant.exists"

(* --------------------------------- C2 --------------------------------- *)
\* C2: of several concurrent Auth calls for one unregistered ClientID, every
\* call other than the winner is answered Conflict, also when it passed the
\* pre-check and lost only at CreateTenant.
C2_LosersGetConflict ==
    \A p, q \in Procs :
        (/\ p # q /\ Done(p) /\ Done(q)
         /\ WellFormedAuth(req[p], tokenStore) /\ WellFormedAuth(req[q], tokenStore)
         /\ req[p].body.ClientID = req[q].body.ClientID
         /\ req[p].body.ClientID \notin storeAtStart[p].tenants
         /\ req[p].body.ClientID \notin storeAtStart[q].tenants
         /\ resp[q].status = StatusOK
         /\ gate[p] \notin FaultGates)
        => resp[p].status = StatusConflict

(* --------------------------------- C3 --------------------------------- *)
\* C3: once an Auth call for a ClientID has succeeded, every Auth call that
\* begins later for that ClientID with a registered token (any valid
\* assertion, any client public key) and meets no store failure is answered
\* Conflict and leaves TenantStore as it was; the keyring persisted for the
\* ClientID stays the one the successful call wrote.
C3_NotIdempotentNoRekey ==
    /\ \A p \in Procs :
         (/\ Done(p)
          /\ WellFormedAuth(req[p], tokenStore)
          /\ req[p].body.ClientID \in succAtStart[p]
          /\ gate[p] \notin FaultGates)
         => /\ resp[p].status = StatusConflict
            /\ tenants = storeAtStart[p].tenants
            /\ keyrings = storeAtStart[p].keyrings
    /\ \A c \in ClientIDs : successes[c] > 0 => keyrings[c] = issued[c]

\* a later call for a registered ClientID with another assertion and another
\* public key than the successful call's was answered Conflict
C3_Witness ==
    \E p \in Procs :
        /\ Done(p)
        /\ WellFormedAuth(req[p], tokenStore)
        /\ req[p].body.ClientID \in succAtStart[p]
        /\ req[p].header = <<BearerWord, SP, "jws-cd34">>
        /\ req[p].body.ClientPubKey.valid
        /\ req[p].body.ClientPubKey.id # issued[req[p].body.ClientID].sharedKeys.client
        /\ resp[p].status = StatusConflict

(* --------------------------------- C4 --------------------------------- *)
\* C4: whenever no Auth call is in progress, every tenant of TenantStore has
\* a persisted keyring (a call that ends without success leaves no tenant
\* record without keyring).
C4_NoHalfCreatedTenant ==
    (\A p \in Procs : pc[p] \in {"idle", "done"})
    => \A c \in tenants : keyrings[c] # NoKeyring

(* --------------------------------- C5 --------------------------------- *)
\* C5: an Auth call that ends as unauthorized, bad-request or conflict, or as
\* an internal error of the token lookup, the tenant-existence check or the
\* key exchange, leaves the tenant set and all keyrings as they were when the
\* call began.
C5_ReadOnlyBeforeCreate ==
    \A p \in Procs :
        (/\ Done(p) /\ IsAuth(p)
         /\ \/ resp[p].status \in {StatusUnauthorized, StatusBadRequest, StatusConflict}
            \/ gate[p] \in {"tokenExists.err", "tenantExists.err", "keyExchange"})
        => /\ tenants = storeAtStart[p].tenants
           /\ keyrings = storeAtStart[p].keyrings

\* a call with a registered token and an unused ClientID failed at the key
\* exchange
C5_Witness ==
    \E p \in Procs :
        /\ Done(p) /\ IsAuth(p)
        /\ gate[p] = "keyExchange"
        /\ ~req[p].body.ClientPubKey.valid
        /\ resp[p].status = StatusInternalServerError

(* --------------------------------- C6 --------------------------------- *)
\* C6: an Auth call with no credential, with an assertion that is malformed
\* or wrongly signed, or with a correctly signed assertion of a token that is
\* not in TokenStore gets one and the same response, status and content: the
\* response does not depend on which of the causes applies nor on TokenStore.
CredentialRejected(h, store) ==
    \/ ~CredentialPresent(h)
    \/ ~SignatureValid(h)
    \/ PayloadParses(h) /\ ~TokenRegistered(h, store)

C6_AntiEnumeration ==
    \A p \in Procs :
        (/\ Done(p) /\ IsAuth(p)
         /\ CredentialRejected(req[p].header, tokenStore)
         /\ gate[p] \notin FaultGates)
        => resp[p] = SendStatus(StatusUnauthorized)

\* a correctly signed assertion of an unregistered token was refused
C6_Witness ==
    \E p \in Procs :
        /\ Done(p) /\ IsAuth(p)
        /\ PayloadParses(req[p].header)
        /\ ~TokenRegistered(req[p].header, tokenStore)
        /\ resp[p].status = StatusUnauthorized

(* --------------------------------- C7 --------------------------------- *)
\* C7: an Auth call whose assertion verifies but whose payload does not parse
\* ends with the Internal error response; the process stays up and TenantStore
\* is unchanged.
C7_UnparseablePayloadFailsGracefully ==
    \A p \in Procs :
        (/\ IsAuth(p)
         /\ SignatureValid(req[p].header) /\ ~PayloadParses(req[p].header)
         /\ pc[p] # "auth")
        => /\ Done(p)
           /\ resp[p].status = StatusInternalServerError
           /\ ~aborted
           /\ tenants = storeAtStart[p].tenants
           /\ keyrings = storeAtStart[p].keyrings

(* --------------------------------- C8 --------------------------------- *)
\* the status the first failing gate of Auth prescribes, the gates taken in
\* the order credential present, signature valid, (payload parses,) token
\* registered, body well-formed, ClientID unused, key exchange, creation
FirstFailingGateStatus(r, store, ts) ==
    IF ~CredentialPresent(r.header) THEN StatusUnauthorized
    ELSE IF ~SignatureValid(r.header) THEN StatusUnauthorized
    ELSE IF ~TokenRegistered(r.header, store) THEN StatusUnauthorized
    ELSE IF ~r.body.json THEN StatusBadRequest
    ELSE IF r.body.ClientID \in ts THEN StatusConflict
    ELSE IF ~r.body.ClientPubKey.valid THEN StatusInternalServerError
    ELSE StatusOK

\* C8: the response of an Auth call that meets no store failure is the one of
\* the first gate its request fails, in the fixed gate order; a store failure
\* is reported only by a call whose request passed every gate before that
\* store call.  So a bad or unregistered credential with a malformed body is
\* unauthorized, a registered token with a malformed body is bad-request, and
\* a registered ClientID with an invalid public key is conflict.
C8_GateOrder ==
    \A p \in Procs :
        (Done(p) /\ IsAuth(p)) =>
            LET r == req[p] IN
            /\ gate[p] \notin FaultGates =>
                 resp[p].status =
                     FirstFailingGateStatus(r, tokenStore, storeAtStart[p].tenants)
            /\ gate[p] = "tokenExists.err" => PayloadParses(r.header)
            /\ gate[p] = "tenantExists.err" =>
                 TokenRegistered(r.header, tokenStore) /\ r.body.json
            /\ gate[p] \in {"createTenant.err", "keyringStore.err", "put.err"} =>
                 /\ TokenRegistered(r.header, tokenStore) /\ r.body.json
                 /\ r.body.ClientID \notin storeAtStart[p].tenants
                 /\ r.body.ClientPubKey.valid

\* a call for a registered ClientID with an invalid public key was answered
\* Conflict
C8_Witness ==
    \E p \in Procs :
        /\ Done(p) /\ IsAuth(p)
        /\ TokenRegistered(req[p].header, tokenStore)
        /\ req[p].body.json
        /\ req[p].body.ClientID \in storeAtStart[p].tenants
        /\ ~req[p].body.ClientPubKey.valid
        /\ resp[p].status = StatusConflict

(* --------------------------------- C9 --------------------------------- *)
\* C9 as stated: Join with any header value other than the empty one,
\* blanks included, is refused as a protocol violation, returns no signatures
\* and does not read TokenStore.
C9_AnyNonEmptyHeaderRefused ==
    \A p \in Procs :
        (Done(p) /\ IsJoin(p) /\ req[p].header # <<>>)
        => /\ resp[p].status = StatusBadRequest
           /\ resp[p].Signatures = NoSigs
           /\ ~readTokens[p]

\* C9 amended: Join with a header value that holds a non-blank character is
\* refused as a protocol violation, returns no signatures and does not read
\* TokenStore (a value of blanks only is treated as no header).
C9_NonBlankHeaderRefused ==
    \A p \in Procs :
        (Done(p) /\ IsJoin(p) /\ TrimSpace(req[p].header) # <<>>)
        => /\ resp[p] = SendStatus(StatusBadRequest)
           /\ resp[p].Signatures = NoSigs
           /\ ~readTokens[p]

\* a Join that carried a bare valid assertion was refused while tokens are
\* active
C9_Witness ==
    \E p \in Procs :
        /\ Done(p) /\ IsJoin(p)
        /\ req[p].header = <<"jws-ab12">>
        /\ tokenStore # {}
        /\ resp[p].status = StatusBadRequest

(* --------------------------------- C10 -------------------------------- *)
\* C10: Join with no credential over an empty token set, the listing having
\* worked, is never a success with an empty map: it is answered "not
\* accepting bootstrap requests", a client error whose status no Join with a
\* credential, with a failed listing or with active tokens gets.
C10_EmptyTokenSetRefused ==
    \A p \in Procs :
        (/\ Done(p) /\ IsJoin(p)
         /\ ~CredentialPresent(req[p].header)
         /\ tokenStore = {}
         /\ gate[p] \notin FaultGates)
        => /\ resp[p].status = StatusMethodNotAllowed
           /\ resp[p].status >= StatusBadRequest
           /\ resp[p].status < StatusInternalServerError
           /\ resp[p].Signatures = NoSigs
           /\ \A h \in Headers, store \in SUBSET Tokens, up \in BOOLEAN :
                \A unsignable \in SUBSET store :
                  (CredentialPresent(h) \/ ~up \/ store # {})
                  => JoinOutcome(h, store, up, unsignable).resp.status
                       # resp[p].status

\* a Join with a header of blanks only met an empty token set
C10_Witness ==
    \E p \in Procs :
        /\ Done(p) /\ IsJoin(p)
        /\ req[p].header = <<SP>>
        /\ tokenStore = {}
        /\ resp[p].status = StatusMethodNotAllowed


(* --------------------------------- C11 -------------------------------- *)
\* C11: over a non-empty set of active tokens, a Join with no credential that
\* meets no listing or signing failure returns a map with exactly one entry
\* per token, keyed by the token's hex identifier, whose value is the gateway's
\* detached signature over the secret of the token with that identifier.
C11_OneSignaturePerToken ==
    \A p \in Procs :
        (/\ Done(p) /\ IsJoin(p)
         /\ ~CredentialPresent(req[p].header)
         /\ tokenStore # {}
         /\ gate[p] \notin FaultGates)
        => /\ resp[p].status = StatusOK
           /\ DOMAIN resp[p].Signatures = {HexID(t) : t \in tokenStore}
           /\ Cardinality(DOMAIN resp[p].Signatures) = Cardinality(tokenStore)
           /\ \A t \in tokenStore :
                resp[p].Signatures[HexID(t)] = [signer |-> "gateway", over |-> t.secret]

\* a Join over two active tokens returned two signatures
C11_Witness ==
    \E p \in Procs :
        /\ Done(p) /\ IsJoin(p)
        /\ tokenStore = Tokens
        /\ resp[p].status = StatusOK
        /\ Cardinality(DOMAIN resp[p].Signatures) = Cardinality(Tokens)


(* --------------------------------- C12 -------------------------------- *)
\* C12: after a successful Auth, the secret the client derives from its own
\* key pair and the server public key of the response is the secret the
\* keyring persisted for the ClientID is seeded with (so the returned key is
\* the public half of the pair the server derived with), and the response
\* holds the server public key and nothing else.
C12_KeyExchangeSymmetry ==
    \A p \in Procs :
        (Done(p) /\ IsAuth(p) /\ resp[p].status = StatusOK) =>
            LET pub == resp[p].ServerPubKey
                d == ClientDeriveSharedSecret(req[p].body.ClientPubKey, pub)
            IN  /\ ~d.err
                /\ keyrings[req[p].body.ClientID] = NewKeyring(d.secret)
                /\ resp[p] = Response(StatusOK, "", NoSigs, pub)
                /\ pub.side = "server"

\* the second Auth of a run succeeded, with the second key pair
C12_Witness ==
    \E p \in Procs :
        /\ Done(p) /\ IsAuth(p) /\ resp[p].status = StatusOK
        /\ nextKey > 1
        /\ resp[p].ServerPubKey.id = nextKey


(* --------------------------------- C13 -------------------------------- *)
\* C13: in an Auth call that passed the credential gates, a failure of any
\* store call (token lookup, tenant-existence check, tenant creation,
\* keyring-store lookup, keyring Put) ends the call with the bare
\* internal-error response, and so does a client public key from which no
\* shared secret can be derived; the latter leaves TenantStore as it was.
C13_FailuresAreInternalErrors ==
    \A p \in Procs :
        (Done(p) /\ IsAuth(p) /\ PayloadParses(req[p].header)) =>
            /\ faultAt[p] # "" => resp[p] = SendStatus(StatusInternalServerError)
            /\ (/\ faultAt[p] = ""
                /\ WellFormedAuth(req[p], tokenStore)
                /\ req[p].body.ClientID \notin storeAtStart[p].tenants
                /\ ~req[p].body.ClientPubKey.valid)
               => /\ resp[p] = SendStatus(StatusInternalServerError)
                  /\ tenants = storeAtStart[p].tenants
                  /\ keyrings = storeAtStart[p].keyrings

\* an Auth call with a registered token and a fresh ClientID, no store failure,
\* ended at the key exchange
C13_Witness ==
    \E p \in Procs :
        /\ Done(p) /\ WellFormedAuth(req[p], tokenStore)
        /\ req[p].body.ClientID \notin storeAtStart[p].tenants
        /\ ~req[p].body.ClientPubKey.valid
        /\ faultAt[p] = ""
        /\ resp[p].status = StatusInternalServerError


(* --------------------------------- C14 -------------------------------- *)
\* C14: every Auth call that reaches the key exchange works with a key pair
\* of its own: calls in progress hold different pairs, a pair in use is not
\* the pair behind any keyring already persisted, keyrings persisted for
\* different ClientIDs come from different pairs, two successful responses
\* carry different server public keys, and what the stores hold is token
\* records, tenant ids and keyrings of shared keys only, never a private key.
C14_EphemeralKeysSingleUse ==
    /\ \A p, q \in Procs :
         (p # q /\ ekp[p] # NoKeyPair /\ ekp[q] # NoKeyPair)
             => /\ ekp[p].PublicKey # ekp[q].PublicKey
                /\ ekp[p].PrivateKey # ekp[q].PrivateKey
    /\ \A p \in Procs : \A c \in ClientIDs :
         (ekp[p] # NoKeyPair /\ keyrings[c] # NoKeyring)
             => keyrings[c].sharedKeys.server # ekp[p].PrivateKey.id
    /\ \A c, d \in ClientIDs :
         (c # d /\ keyrings[c] # NoKeyring /\ keyrings[d] # NoKeyring)
             => keyrings[c].sharedKeys.server # keyrings[d].sharedKeys.server
    /\ \A p, q \in Procs :
         (/\ p # q /\ Done(p) /\ Done(q)
          /\ resp[p].status = StatusOK /\ resp[q].status = StatusOK)
             => resp[p].ServerPubKey # resp[q].ServerPubKey
    /\ \A p \in Procs : \A c \in ClientIDs :
         (Done(p) /\ resp[p].status = StatusOK /\ req[p].body.ClientID # c
          /\ keyrings[c] # NoKeyring)
             => keyrings[c].sharedKeys.server # resp[p].ServerPubKey.id
    /\ tokenStore \subseteq Tokens
    /\ tenants \subseteq ClientIDs
    /\ \A c \in ClientIDs : DOMAIN keyrings[c] = {"sharedKeys"}

\* two concurrent Auth calls have both been answered with success and the
\* keyrings of both are persisted
C14_Witness ==
    \E p, q \in Procs :
        /\ p # q
        /\ Done(p) /\ resp[p].status = StatusOK
        /\ Done(q) /\ resp[q].status = StatusOK
        /\ keyrings[req[p].body.ClientID] # NoKeyring
        /\ keyrings[req[q].body.ClientID] # NoKeyring


(* --------------------------------- C15 -------------------------------- *)
\* C15: no step of a Join or Auth call, whatever its outcome, changes
\* TokenStore: the same token records, with the same identifiers and secrets,
\* are there after the step as before it; and a step of a Join call changes
\* neither the tenants nor the keyrings of TenantStore.
C15_TokensNeverMutated ==
    [][/\ tokenStore' = tokenStore
       /\ (\E p \in Procs : pc[p] = "join" /\ pc'[p] # "join")
             => UNCHANGED <<tenants, keyrings>>]_vars

\* a Join call has been answered with signatures after an Auth call registered
\* a tenant, and TokenStore still holds every token
C15_Witness ==
    \E p \in Procs :
        /\ Done(p) /\ IsJoin(p) /\ resp[p].status = StatusOK
        /\ \E c \in ClientIDs : successes[c] > 0 /\ c \in tenants
        /\ tokenStore = Tokens


(* ---------------- vocabulary of the claims on selection --------------- *)
Called == spc = "called"
IdListed == \E i \in 1..Len(selector.ClusterIDs) : selector.ClusterIDs[i] = cluster.Id
ValueSet(r) == {r.Values[i] : i \in 1..Len(r.Values)}
\* the selector's label selector is the one requirement r and nothing else
OnlyRequirement(r) ==
    /\ ~selector.LabelSelector.nil
    /\ selector.LabelSelector.MatchLabels = EmptyLabels
    /\ selector.LabelSelector.MatchExpressions = <<r>>
\* the cluster has label key with one of the values / with the given value
LabelIn(key, values) == HasKey(cluster.Labels, key) /\ cluster.Labels[key] \in values

(* --------------------------------- C16 -------------------------------- *)
\* C16: for a cluster whose Id is not listed, a selector whose label selector
\* is the single requirement `key NotIn values` matches exactly when the
\* cluster has the label key and its value is none of values; a cluster
\* without the label key is not matched.
C16_NotInNeedsTheKey ==
    \A r \in Requirements :
        (/\ Called /\ ~IdListed
         /\ r.Operator = LabelSelectorOpNotIn
         /\ OnlyRequirement(r))
        => (matched <=> /\ HasKey(cluster.Labels, r.Key)
                        /\ cluster.Labels[r.Key] \notin ValueSet(r))


(* --------------------------------- C17 -------------------------------- *)
\* C17: a selector asked for with no cluster ids and no label requirements
\* returns false for every cluster when it is asked for with the
\* EmptySelectorMatchesNone option, and true for every cluster without it.
C17_EmptySelectorOption ==
    (/\ Called
     /\ args.ids = <<>>
     /\ args.labelSelector.MatchLabels = EmptyLabels
     /\ args.labelSelector.MatchExpressions = <<>>)
    => (matched <=> args.options # MatchOptions_EmptySelectorMatchesNone)


(* --------------------------------- C18 -------------------------------- *)
\* C18: a selector without a label selector (and asked for without a match
\* option) matches every cluster when it lists no cluster ids, and otherwise
\* matches exactly the clusters whose Id it lists, whatever their labels.
C18_IdsOnlySelector ==
    (/\ Called
     /\ selector.LabelSelector.nil
     /\ args.options = MatchOptions_Default)
    => (matched <=> (Len(selector.ClusterIDs) = 0 \/ IdListed))

\* the selector without ids and without label selector was called on a
\* labelled cluster and matched it
C18_Witness ==
    /\ Called
    /\ selector.LabelSelector.nil
    /\ args.options = MatchOptions_Default
    /\ Len(selector.ClusterIDs) = 0
    /\ cluster.Labels # EmptyLabels
    /\ matched


(* --------------------------------- C19 -------------------------------- *)
\* C19: for a cluster whose Id is not listed, a selector with MatchLabels (and
\* no match expressions) matches exactly when the cluster has every key of
\* MatchLabels with the value given there, the empty string included; a
\* cluster without one of the keys is not matched.
C19_MatchLabelsNeedTheKey ==
    (/\ Called /\ ~IdListed
     /\ ~selector.LabelSelector.nil
     /\ selector.LabelSelector.MatchLabels # EmptyLabels
     /\ selector.LabelSelector.MatchExpressions = <<>>)
    => (matched <=>
            \A key \in DOMAIN selector.LabelSelector.MatchLabels :
                LabelIn(key, {selector.LabelSelector.MatchLabels[key]}))

(* --------------------------------- C20 -------------------------------- *)
\* C20: for a cluster whose Id is not listed, a selector whose label selector
\* is the single requirement `key In values` matches exactly when the cluster
\* has the label key and its value is one of values; not when the value is
\* none of them, when values is empty, or when the cluster lacks the key.
C20_InNeedsTheKey ==
    \A r \in Requirements :
        (/\ Called /\ ~IdListed
         /\ r.Operator = LabelSelectorOpIn
         /\ OnlyRequirement(r))
        => (matched <=> LabelIn(r.Key, ValueSet(r)))


(* --------------------------------- C21 -------------------------------- *)
\* the match expressions of the selector, last one first
ReversedExprs ==
    LET e == selector.LabelSelector.MatchExpressions
    IN  [i \in 1..Len(e) |-> e[Len(e) + 1 - i]]
\* every match expression of the selector is an Exists or a DoesNotExist
OnlyExistence ==
    /\ ~selector.LabelSelector.nil
    /\ selector.LabelSelector.MatchLabels = EmptyLabels
    /\ Len(selector.LabelSelector.MatchExpressions) > 0
    /\ \A i \in 1..Len(selector.LabelSelector.MatchExpressions) :
         selector.LabelSelector.MatchExpressions[i].Operator
             \in {LabelSelectorOpExists, LabelSelectorOpDoesNotExist}

\* C21: for a cluster whose Id is not listed, a selector made of Exists and
\* DoesNotExist expressions matches exactly when the cluster has the key of
\* every Exists expression (with any value) and lacks the key of every
\* DoesNotExist expression, so `k Exists` together with `k DoesNotExist`
\* matches no such cluster; and the result of any list of match expressions
\* is the same when the list is given in the opposite order.
C21_ExistenceAndConjunction ==
    Called =>
        /\ (OnlyExistence /\ ~IdListed) =>
             (matched <=>
                \A i \in 1..Len(selector.LabelSelector.MatchExpressions) :
                    LET r == selector.LabelSelector.MatchExpressions[i]
                    IN  (r.Operator = LabelSelectorOpExists) <=> HasKey(cluster.Labels, r.Key))
        /\ ~selector.LabelSelector.nil =>
             matched = Call(Predicate([selector EXCEPT
                                          !.LabelSelector.MatchExpressions = ReversedExprs]),
                            cluster)

\* `k Exists` and `k DoesNotExist` together were evaluated on a cluster that
\* has label k with the empty value, and did not match
C21_Witness ==
    /\ Called /\ ~IdListed /\ OnlyExistence
    /\ \E k \in Keys :
         /\ selector.LabelSelector.MatchExpressions
              = <<Requirement(k, LabelSelectorOpDoesNotExist, <<>>),
                  Requirement(k, LabelSelectorOpExists, <<>>)>>
         /\ HasKey(cluster.Labels, k)
         /\ cluster.Labels[k] = ""
    /\ ~matched


(* --------------------------------- C22 -------------------------------- *)
\* C22: a Join call in which listing the tokens fails, or signing fails for
\* any one token, ends with the bare internal-error response and no signature
\* map; and a Join answered with success carries a signature for every active
\* token, never for only some of them.
C22_JoinAllOrNothing ==
    \A p \in Procs :
        (Done(p) /\ IsJoin(p)) =>
            /\ faultAt[p] \in {"ListTokens", "SignDetached"} =>
                 /\ resp[p] = SendStatus(StatusInternalServerError)
                 /\ resp[p].Signatures = NoSigs
            /\ resp[p].status = StatusOK =>
                 /\ faultAt[p] = ""
                 /\ DOMAIN resp[p].Signatures = {HexID(t) : t \in tokenStore}

\* over two active tokens, signing failed for at least one and the Join was
\* answered with the internal error
C22_Witness ==
    \E p \in Procs :
        /\ Done(p) /\ IsJoin(p)
        /\ tokenStore = Tokens
        /\ faultAt[p] = "SignDetached"
        /\ resp[p].status = StatusInternalServerError


(* --------------------------------- C23 -------------------------------- *)
JoinGates == {"join.credential", "join.err", "join.empty", "join.ok"}

\* C23: a goroutine is in the Join handler only with a request for
\* /bootstrap/join and in the Auth handler only with one for /bootstrap/auth;
\* a request for any other path is answered with the bare not-found response,
\* and that call reads no token, meets no store call and leaves the tenants
\* and keyrings as they were.
C23_DispatchByPath ==
    \A p \in Procs :
        /\ pc[p] = "join" => IsJoin(p)
        /\ pc[p] \notin {"idle", "done", "join"} => IsAuth(p)
        /\ Done(p) =>
             /\ gate[p] \in JoinGates <=> IsJoin(p)
             /\ gate[p] = "notFound" <=> ~(IsJoin(p) \/ IsAuth(p))
             /\ ~(IsJoin(p) \/ IsAuth(p)) =>
                  /\ resp[p] = SendStatus(StatusNotFound)
                  /\ ~readTokens[p]
                  /\ faultAt[p] = ""
                  /\ tenants = storeAtStart[p].tenants
                  /\ keyrings = storeAtStart[p].keyrings

\* a request for /metrics, sent while a tenant is registered and tokens are
\* active, has been answered not-found
C23_Witness ==
    \E p \in Procs :
        /\ Done(p)
        /\ req[p].path = "/metrics"
        /\ resp[p].status = StatusNotFound
        /\ tenants # {}
        /\ tokenStore = Tokens


(* --------------------------------- C24 -------------------------------- *)
\* hex id of the token named by the assertion of a header
AssertedToken(h) == JwsVerify(Assertion0(h)).payload.token.id

\* C24: when an Auth call for one ClientID has succeeded with token t, a later
\* Auth call for another, unregistered ClientID that presents a valid
\* assertion of the same token t, a well-formed body and a valid public key,
\* and meets no store failure, succeeds too, and t is still in TokenStore.
C24_TokenNotConsumed ==
    \A p \in Procs : \A c \in ClientIDs :
        (/\ Done(p) /\ IsAuth(p)
         /\ PayloadParses(req[p].header)
         /\ c \in succAtStart[p]
         /\ usedToken[c] = AssertedToken(req[p].header)
         /\ req[p].body.json
         /\ req[p].body.ClientID # c
         /\ req[p].body.ClientID \notin storeAtStart[p].tenants
         /\ req[p].body.ClientPubKey.valid
         /\ faultAt[p] = "")
        => /\ resp[p].status = StatusOK
           /\ usedToken[c] \in {HexID(t) : t \in tokenStore}
           /\ usedToken[req[p].body.ClientID] = usedToken[c]

\* two ClientIDs have been registered one after the other with one token
C24_Witness ==
    \E p \in Procs : \E c \in ClientIDs :
        /\ Done(p) /\ IsAuth(p) /\ resp[p].status = StatusOK
        /\ c \in succAtStart[p]
        /\ req[p].body.ClientID # c
        /\ usedToken[c] # ""
        /\ usedToken[req[p].body.ClientID] = usedToken[c]
        /\ tenants = ClientIDs


(* --------------------------------- C25 -------------------------------- *)
\* what the selector's label selector alone, without the id list, returns
LabelSelectorAlone ==
    Call(Predicate([selector EXCEPT !.ClusterIDs = <<>>]), cluster)

\* C25: a selector with both cluster ids and a label selector matches a
\* cluster exactly when the cluster's Id is listed or the label selector on
\* its own matches the cluster; with a label selector that has no MatchLabels
\* and no MatchExpressions it matches every cluster, listed or not.
C25_IdsAndLabelsUnion ==
    (/\ Called
     /\ Len(selector.ClusterIDs) > 0
     /\ ~selector.LabelSelector.nil)
    => /\ matched <=> (IdListed \/ LabelSelectorAlone)
       /\ (/\ selector.LabelSelector.MatchLabels = EmptyLabels
           /\ selector.LabelSelector.MatchExpressions = <<>>) => matched

\* a selector listing c1 with an empty, non-nil label selector matched
\* cluster c2
C25_Witness ==
    /\ Called
    /\ selector.ClusterIDs = <<"c1">>
    /\ ~selector.LabelSelector.nil
    /\ selector.LabelSelector.MatchLabels = EmptyLabels
    /\ selector.LabelSelector.MatchExpressions = <<>>
    /\ cluster.Id = "c2"
    /\ matched

(* --------------------------------- C26 -------------------------------- *)
KnownOperators == {LabelSelectorOpIn, LabelSelectorOpNotIn, LabelSelectorOpExists,
                   LabelSelectorOpDoesNotExist}
HasKnownOperator(r) == r.Operator \in KnownOperators
\* the selector with match expressions e in place of its own
WithExprs(e) == [selector EXCEPT !.LabelSelector.MatchExpressions = e]
\* the match expressions of the selector with r put in after the first i
InsertExpr(r, i) ==
    LET e == selector.LabelSelector.MatchExpressions
    IN  SubSeq(e, 1, i) \o <<r>> \o SubSeq(e, i + 1, Len(e))

\* C26: a match expression whose operator is none of In, NotIn, Exists and
\* DoesNotExist is satisfied by every cluster: a selector gives the same
\* result as it does with every such expression taken out of its list, and
\* as it does with one more such expression put in at any place.
C26_UnknownOperatorIgnored ==
    (Called /\ ~selector.LabelSelector.nil) =>
        /\ matched = Call(Predicate(WithExprs(
                         SelectSeq(selector.LabelSelector.MatchExpressions,
                                   HasKnownOperator))), cluster)
        /\ \A k \in Keys : \A vs \in ValueLists :
             \A i \in 0..Len(selector.LabelSelector.MatchExpressions) :
                matched = Call(Predicate(WithExprs(
                              InsertExpr(Requirement(k, LabelSelectorOpOther, vs), i))),
                              cluster)

\* a selector whose only match expression has an unknown operator matched a
\* cluster that is not listed and does not have the expression's key
C26_Witness ==
    /\ Called /\ ~IdListed
    /\ \E k \in Keys :
         /\ OnlyRequirement(Requirement(k, LabelSelectorOpOther, <<>>))
         /\ ~HasKey(cluster.Labels, k)
    /\ matched


(* --------------------------------- C27 -------------------------------- *)
\* C27: for every agent, once the context is cancelled and both its
\* goroutines have returned, an agent that agent.New created has been shut
\* down and runningAgents has no entry for the id; and runningAgents never
\* has an entry for an id whose cleanup goroutine has returned.
C27_AgentCleanedUp ==
    \A id \in AgentIDs :
        /\ (ctxDone /\ gpc[id] = "done" /\ cpc[id] = "done")
              => (a[id] # "created" /\ id \notin runningAgents)
        /\ cpc[id] = "done" => id \notin runningAgents

(* --------------------------------- C28 -------------------------------- *)
\* C28: after the context is cancelled every goroutine StartAgent started
\* returns: the cleanup goroutine completes, and a start goroutine that has
\* an error to send gets rid of it, whether or not the caller reads the
\* channel.
C28_GoroutinesTerminate ==
    \A id \in AgentIDs :
        /\ (ctxDone /\ cpc[id] = "wait") ~> (cpc[id] = "done")
        /\ (ctxDone /\ gpc[id] = "sendServeErr") ~> (gpc[id] = "done")

====
